---------------------------- MODULE Spec2Model ----------------------------
(***************************************************************************)
(* Model of dukhota/message.py: the Message entity, its construction       *)
(* (chat id, fingerprint, significant_text), is_comparable and __eq__.     *)
(*                                                                         *)
(* Representation of Python values:                                        *)
(*   Optional[X]  : None is <<>>, a present value v is <<v>>               *)
(*   str          : a sequence of one-character strings                    *)
(*   List[str]    : a sequence of str                                      *)
(*   float ratio  : a pair <<numerator, denominator>>; the limits 0.75,    *)
(*                  0.66 and 0.33 are kept as hundredths                   *)
(***************************************************************************)
EXTENDS Integers, Sequences, FiniteSets, TLC

None == <<>>
Some(v) == <<v>>
Val(o) == o[1]

\* Python truthiness of an Optional[int]: None and 0 are falsy.
TruthyInt(o) == o # None /\ Val(o) # 0

\* Python truthiness of an Optional[str] / Optional[List[str]]: None and the
\* empty sequence are falsy.
TruthySeq(o) == o # None /\ Val(o) # <<>>

Rep(c, n) == [i \in 1..n |-> c]

Max(x, y) == IF x >= y THEN x ELSE y

-----------------------------------------------------------------------------
(* str(int), str.replace, int(str), str.join *)

DigitChars == <<"0", "1", "2", "3", "4", "5", "6", "7", "8", "9">>

RECURSIVE NatToStr(_)
NatToStr(n) ==
    IF n < 10 THEN <<DigitChars[n + 1]>>
    ELSE NatToStr(n \div 10) \o <<DigitChars[(n % 10) + 1]>>

IntToStr(n) == IF n < 0 THEN <<"-">> \o NatToStr(0 - n) ELSE NatToStr(n)

\* str(x) for an Optional[int]: str(None) is the text "None".
StrOfOptInt(o) == IF o = None THEN <<"N", "o", "n", "e">> ELSE IntToStr(Val(o))

StartsWith(s, old) == Len(s) >= Len(old) /\ SubSeq(s, 1, Len(old)) = old

\* s.replace(old, new) for a non-empty old: left to right, non-overlapping.
RECURSIVE Replace(_, _, _)
Replace(s, old, new) ==
    IF s = <<>> THEN <<>>
    ELSE IF StartsWith(s, old)
         THEN new \o Replace(SubSeq(s, Len(old) + 1, Len(s)), old, new)
         ELSE <<Head(s)>> \o Replace(Tail(s), old, new)

IsDigit(c) == \E d \in 1..10 : DigitChars[d] = c

DigitVal(c) == (CHOOSE d \in 1..10 : DigitChars[d] = c) - 1

\* The strings int() accepts among those str(int) and replace can produce:
\* an optional sign followed by at least one digit.
IsIntLiteral(s) ==
    LET body == IF s # <<>> /\ Head(s) \in {"-", "+"} THEN Tail(s) ELSE s
    IN  body # <<>> /\ \A i \in 1..Len(body) : IsDigit(body[i])

RECURSIVE DigitsToNat(_)
DigitsToNat(s) ==
    IF s = <<>> THEN 0
    ELSE 10 * DigitsToNat(SubSeq(s, 1, Len(s) - 1)) + DigitVal(s[Len(s)])

ParseInt(s) ==
    IF Head(s) = "-" THEN 0 - DigitsToNat(Tail(s))
    ELSE IF Head(s) = "+" THEN DigitsToNat(Tail(s))
    ELSE DigitsToNat(s)

\* sep.join(parts)
RECURSIVE Join(_, _)
Join(sep, parts) ==
    IF parts = <<>> THEN <<>>
    ELSE IF Len(parts) = 1 THEN parts[1]
    ELSE parts[1] \o sep \o Join(sep, Tail(parts))

-----------------------------------------------------------------------------
(* difflib.SequenceMatcher(None, x, y).ratio(), as called by __eq__.        *)
(* No element is junk (isjunk is None, and the automatic junk heuristic     *)
(* needs a second sequence of 200 or more elements).  Ranges are 1-based    *)
(* and inclusive.                                                           *)

\* Length of the common run of x from i and y from j inside the ranges.
RECURSIVE RunLen(_, _, _, _, _, _)
RunLen(x, y, i, j, ahi, bhi) ==
    IF i > ahi \/ j > bhi THEN 0
    ELSE IF x[i] # y[j] THEN 0
    ELSE 1 + RunLen(x, y, i + 1, j + 1, ahi, bhi)

\* The blocks that cannot be extended to the left, each <<i, j, size>>; a
\* longest block is always one of them.
BlockStarts(x, y, alo, ahi, blo, bhi) ==
    { <<p[1], p[2], RunLen(x, y, p[1], p[2], ahi, bhi)>> :
        p \in { q \in (alo..ahi) \X (blo..bhi) :
                  /\ x[q[1]] = y[q[2]]
                  /\ (q[1] = alo \/ q[2] = blo \/ x[q[1] - 1] # y[q[2] - 1]) } }

\* <<i, j, k>>: the longest matching block of x[alo..ahi] and y[blo..bhi]; of
\* the longest ones the one starting earliest in x, then earliest in y; and
\* <<alo, blo, 0>> when nothing matches.
find_longest_match(x, y, alo, ahi, blo, bhi) ==
    LET blocks == BlockStarts(x, y, alo, ahi, blo, bhi)
        Earlier(t, u) == t[1] < u[1] \/ (t[1] = u[1] /\ t[2] <= u[2])
    IN  IF blocks = {} THEN <<alo, blo, 0>>
        ELSE CHOOSE t \in blocks :
               \A u \in blocks :
                  t[3] > u[3] \/ (t[3] = u[3] /\ Earlier(t, u))

\* Sum of the sizes of get_matching_blocks(): the longest block, then the
\* same to its left and to its right.
RECURSIVE MatchedIn(_, _, _, _, _, _)
MatchedIn(x, y, alo, ahi, blo, bhi) ==
    IF alo > ahi \/ blo > bhi THEN 0
    ELSE LET m == find_longest_match(x, y, alo, ahi, blo, bhi)
             i == m[1]
             j == m[2]
             k == m[3]
         IN  IF k = 0 THEN 0
             ELSE k
                  + (IF alo < i /\ blo < j
                     THEN MatchedIn(x, y, alo, i - 1, blo, j - 1) ELSE 0)
                  + (IF i + k <= ahi /\ j + k <= bhi
                     THEN MatchedIn(x, y, i + k, ahi, j + k, bhi) ELSE 0)

MatchedChars(x, y) == MatchedIn(x, y, 1, Len(x), 1, Len(y))

-----------------------------------------------------------------------------
(* Message: construction *)

\* len(...) > 64 makes the text significant.
significant_text_len == 64

\* self.text or self.caption or ""
effective_text(m) ==
    IF TruthySeq(m.text) THEN Val(m.text)
    ELSE IF TruthySeq(m.caption) THEN Val(m.caption)
    ELSE <<>>

\* str(self.channel_id).replace("-100", "")
chat_id_text(kw) ==
    Replace(StrOfOptInt(kw.channel_id), <<"-", "1", "0", "0">>, <<>>)

\* A variant of fingerprint_parts that reads the message's own ids instead of
\* the ids of the message it was forwarded from.
fingerprint_parts_own_ids(kw) ==
    << StrOfOptInt(kw.channel_id),
       StrOfOptInt(kw.message_id),
       effective_text(kw),
       Join(<<",">>, Val(kw.media_ids)) >>

\* The string handed to sha256: the four parts joined by ";".
fingerprint_parts(kw) ==
    << StrOfOptInt(kw.from_channel_id),
       StrOfOptInt(kw.from_message_id),
       effective_text(kw),
       Join(<<",">>, Val(kw.media_ids)) >>

\* hashlib.sha256(s).hexdigest()[:16].  The digest is kept as a tagged copy
\* of the hashed string: equal strings give equal digests, and distinct
\* strings are taken to give distinct ones (no collision of the truncated
\* SHA-256 is modelled).
sha256_hex16(s) == <<"sha256[:16]", s>>

gen_fingerprint(kw) == sha256_hex16(Join(<<";">>, fingerprint_parts(kw)))

\* Message(**kw): the fields as given, then chat_id, fingerprint and
\* significant_text in that order.  int() raises ValueError on a text that is
\* no number, "," .join(None) raises TypeError; `raised` is the exception that
\* left the constructor, "none" when the object was built.
Message(kw) ==
    IF ~IsIntLiteral(chat_id_text(kw))
    THEN [kw EXCEPT !.raised = "ValueError"]
    ELSE IF kw.media_ids = None
    THEN [kw EXCEPT !.raised = "TypeError",
                    !.chat_id = Some(ParseInt(chat_id_text(kw)))]
    ELSE [kw EXCEPT !.raised = "none",
                    !.chat_id = Some(ParseInt(chat_id_text(kw))),
                    !.fingerprint = Some(gen_fingerprint(kw)),
                    !.significant_text =
                        Len(effective_text(kw)) > significant_text_len]

-----------------------------------------------------------------------------
(* Message.is_comparable and Message.__eq__ *)

ids_present(self) == TruthyInt(self.channel_id) /\ TruthyInt(self.message_id)

significant_content(self) == TruthySeq(self.media_ids) \/ self.significant_text

forward_self(self) ==
    TruthyInt(self.forward_from_id) /\ self.forward_from_id = self.from_id

\* The truth value of what is_comparable returns.
is_comparable(self) ==
    ids_present(self) /\ significant_content(self) /\ ~forward_self(self)

\* A variant of same_fingerprint that trusts the fingerprint only of a
\* message with significant text.
same_fingerprint_significant(self, other) ==
    self.significant_text /\ self.fingerprint = other.fingerprint

same_fingerprint(self, other) == self.fingerprint = other.fingerprint

same_message(self, other) ==
    /\ TruthyInt(self.channel_id)
    /\ self.channel_id = other.channel_id
    /\ self.message_id = other.message_id

same_forwarded(self, other) ==
    /\ TruthyInt(self.from_channel_id)
    /\ self.from_channel_id = other.from_channel_id
    /\ self.from_message_id = other.from_message_id

\* Ratios are <<numerator, denominator>>; limits are hundredths.
RatioGt(r, pct) == r[1] * 100 > pct * r[2]

RatioGe(r, pct) == r[1] * 100 >= pct * r[2]

media_ratio_limit == 66

text_ratio_limit_default == 75

text_ratio_limit_forwarded == 66

text_ratio_media_limit == 33

text_ratio_limit(self) ==
    IF TruthyInt(self.from_channel_id) /\ TruthyInt(self.from_message_id)
    THEN text_ratio_limit_forwarded
    ELSE text_ratio_limit_default

Elems(q) == { q[i] : i \in 1..Len(q) }

\* len(set(self.media_ids) & set(other.media_ids)) / max(len, len)
same_media_ratio(self, other) ==
    << Cardinality(Elems(Val(self.media_ids)) \cap Elems(Val(other.media_ids))),
       Max(Len(Val(self.media_ids)), Len(Val(other.media_ids))) >>

-----------------------------------------------------------------------------
(* The values the fields are drawn from *)

\* Account ids (from_id, forward_from_id) range over 0..MaxId.
MaxId == 1

TextA == Rep("x", 51) \o Rep("a", 14)

TextA64 == Rep("x", 51) \o Rep("a", 13)

TextB == Rep("x", 51) \o Rep("b", 20)

TextC == Rep("x", 51) \o Rep("b", 19)

TextD == Rep("x", 33) \o Rep("a", 32)

TextE == Rep("x", 33) \o Rep("b", 2)

TextValues == {TextA, TextA64, TextB, TextC, TextD, TextE}

M1 == <<"m", "1">>

M2 == <<"m", "2">>

M3 == <<"m", "3">>

M4 == <<"m", "4">>

\* One identifier that itself holds a comma.
M1M2 == <<"m", "1", ",", "m", "2">>

MediaValues ==
    { <<M1>>, <<M2>>, <<M1, M1>>, <<M1, M2>>, <<M1M2>>,
      <<M1, M2, M3>>, <<M1, M2, M4>> }

\* Matched characters of every pair of texts, computed once.
MatchTable == [x \in TextValues, y \in TextValues |-> MatchedChars(x, y)]

\* difflib.SequenceMatcher(None, x, y).ratio() = 2.0 * matches / length
SequenceMatcherRatio(x, y) == <<2 * MatchTable[x, y], Len(x) + Len(y)>>

same_text_ratio(self, other) ==
    LET compare_self == effective_text(self)
        compare_other == effective_text(other)
    IN  IF compare_self = <<>> \/ compare_other = <<>>
        THEN <<0, 1>>
        ELSE SequenceMatcherRatio(compare_self, compare_other)

matched_by_text(self, other) ==
    self.significant_text
        /\ RatioGt(same_text_ratio(self, other), text_ratio_limit(self))

matched_by_text_with_media(self, other) ==
    /\ TruthySeq(self.media_ids)
    /\ self.significant_text
    /\ RatioGt(same_text_ratio(self, other), text_ratio_media_limit)

matched_by_media(self, other) ==
    /\ TruthySeq(self.media_ids)
    /\ RatioGe(same_media_ratio(self, other), media_ratio_limit)

\* self.__eq__(other) for two constructed messages: "NotImplemented",
\* "True" or "False".
Eq(self, other) ==
    IF ~is_comparable(self) THEN "NotImplemented"
    ELSE IF same_fingerprint(self, other) THEN "True"
    ELSE IF same_message(self, other) THEN "True"
    ELSE IF same_forwarded(self, other) THEN "True"
    ELSE IF matched_by_text(self, other) THEN "True"
    ELSE IF matched_by_text_with_media(self, other) THEN "True"
    ELSE IF matched_by_media(self, other) THEN "True"
    ELSE "False"

\* The fields after super().__init__() when nothing is supplied.
Unset ==
    [ from_id |-> None, channel_id |-> None, message_id |-> None,
      from_channel_id |-> None, from_message_id |-> None,
      forward_from_id |-> None, text |-> None, caption |-> None,
      media_ids |-> None, fingerprint |-> None, significant_text |-> FALSE,
      chat_id |-> None, raised |-> "none" ]

\* A message observed in channel -1001 as message 5, with an empty media list.
Observed ==
    [Unset EXCEPT !.channel_id = Some(-1001), !.message_id = Some(5),
                  !.media_ids = Some(<<>>)]

OptId == {None} \cup { Some(i) : i \in 0..MaxId }

\* Forwarding by an account, with and without media.
KwForward ==
    { [Observed EXCEPT !.from_id = f, !.forward_from_id = w, !.media_ids = Some(md)] :
        f \in OptId, w \in OptId, md \in {<<>>, <<M1>>} }

\* Channel and message ids: absent, zero, malformed ("-100" alone) and usual.
KwIds ==
    { [Observed EXCEPT !.channel_id = c, !.message_id = i, !.media_ids = Some(<<M1>>)] :
        c \in {None, Some(0), Some(-100), Some(-1001), Some(-1002)},
        i \in {None, Some(0), Some(5), Some(6)} }

\* media_ids not supplied.
KwNoMedia ==
    { [Observed EXCEPT !.channel_id = c, !.text = t, !.media_ids = None] :
        c \in {None, Some(-1001)}, t \in {None, Some(TextA)} }

\* Forwarding lineage and text.
KwLineage ==
    { [Observed EXCEPT !.from_channel_id = c, !.from_message_id = i,
                       !.text = Some(t), !.media_ids = Some(md)] :
        c \in {None, Some(0), Some(10)}, i \in {None, Some(0), Some(9)},
        t \in {TextA, TextB, TextD, TextE}, md \in {<<>>, <<M1>>} }

\* Text against caption, and the 64/65 character boundary.
KwText ==
    { [Observed EXCEPT !.text = t, !.caption = c, !.media_ids = Some(md)] :
        t \in {None, Some(<<>>), Some(TextA), Some(TextA64), Some(TextC)},
        c \in {None, Some(<<>>), Some(TextA), Some(TextB)},
        md \in {<<>>, <<M1>>} }

\* Media lists, in two messages of the channel.
KwMedia ==
    { [Observed EXCEPT !.message_id = i, !.text = t, !.media_ids = Some(md)] :
        i \in {Some(5), Some(6)}, t \in {None, Some(TextA)}, md \in MediaValues }

Kwargs == KwForward \cup KwIds \cup KwNoMedia \cup KwLineage \cup KwText \cup KwMedia

-----------------------------------------------------------------------------
(* The state machine: two constructor calls and the two comparisons *)

VARIABLES
    a,        \* <<>> or <<object>>: what Message(**kw) left for the first operand
    b,        \* the same for the second operand
    res_ab,   \* "none", or what a.__eq__(b) returned
    res_ba    \* "none", or what b.__eq__(a) returned

vars == <<a, b, res_ab, res_ba>>

Init == a = <<>> /\ b = <<>> /\ res_ab = "none" /\ res_ba = "none"

Built(s) == s # <<>> /\ s[1].raised = "none"

\* Each operand is constructed once and never updated.
ConstructA(kw) ==
    /\ a = <<>>
    /\ a' = <<Message(kw)>>
    /\ UNCHANGED <<b, res_ab, res_ba>>

ConstructB(kw) ==
    /\ b = <<>>
    /\ b' = <<Message(kw)>>
    /\ UNCHANGED <<a, res_ab, res_ba>>

EqAB ==
    /\ Built(a) /\ Built(b)
    /\ res_ab' = Eq(a[1], b[1])
    /\ UNCHANGED <<a, b, res_ba>>

EqBA ==
    /\ Built(a) /\ Built(b)
    /\ res_ba' = Eq(b[1], a[1])
    /\ UNCHANGED <<a, b, res_ab>>

Next ==
    \/ \E kw \in Kwargs : ConstructA(kw)
    \/ \E kw \in Kwargs : ConstructB(kw)
    \/ EqAB
    \/ EqBA

Spec == Init /\ [][Next]_vars

-----------------------------------------------------------------------------
(* The specification's own notions, as the claims word them *)

Present(o) == o # None

\* Forwarding lineage: fromChannelId and fromMessageId both present.
HasLineage(m) == Present(m.from_channel_id) /\ Present(m.from_message_id)

\* Comparability as specified: ids present, enough content, no self-forward.
SpecComparable(m) ==
    /\ Present(m.channel_id) /\ Present(m.message_id)
    /\ (TruthySeq(m.media_ids) \/ m.significant_text)
    /\ ~(Present(m.forward_from_id) /\ m.forward_from_id = m.from_id)

SpecTextLimit(m) == IF HasLineage(m) THEN 66 ELSE 75

\* |set(x) & set(y)| / max(|set(x)|, |set(y)|)
SetOverlapRatio(x, y) ==
    << Cardinality(Elems(Val(x.media_ids)) \cap Elems(Val(y.media_ids))),
       Max(Cardinality(Elems(Val(x.media_ids))),
           Cardinality(Elems(Val(y.media_ids)))) >>

Rule1(x, y) == x.fingerprint = y.fingerprint

Rule2(x, y) ==
    Present(x.channel_id) /\ x.channel_id = y.channel_id
        /\ x.message_id = y.message_id

Rule3(x, y) ==
    Present(x.from_channel_id) /\ x.from_channel_id = y.from_channel_id
        /\ x.from_message_id = y.from_message_id

Rule4(x, y) ==
    x.significant_text /\ RatioGt(same_text_ratio(x, y), SpecTextLimit(x))

Rule5(x, y) ==
    TruthySeq(x.media_ids) /\ x.significant_text
        /\ RatioGt(same_text_ratio(x, y), 33)

Rule6(x, y) ==
    TruthySeq(x.media_ids) /\ RatioGe(SetOverlapRatio(x, y), 66)

\* Both operands are built, both pass is_comparable, and a.__eq__(b) has run.
ComparedAB ==
    /\ res_ab # "none"
    /\ is_comparable(a[1])
    /\ is_comparable(b[1])

ComparedBA ==
    /\ res_ba # "none"
    /\ is_comparable(a[1])
    /\ is_comparable(b[1])

-----------------------------------------------------------------------------
(* The claims *)

\* C1: when either operand fails comparability, the comparison yields the
\* distinct "incomparable" outcome (NotImplemented), never match or no-match,
\* whichever position the incomparable operand is in.
C1_IncomparableEitherOperand ==
    /\ (res_ab # "none" /\ (~is_comparable(a[1]) \/ ~is_comparable(b[1])))
          => res_ab = "NotImplemented"
    /\ (res_ba # "none" /\ (~is_comparable(a[1]) \/ ~is_comparable(b[1])))
          => res_ba = "NotImplemented"

\* C2: a message is treated as comparable exactly when channelId and
\* messageId are present (0 included), it has media or significant text, and
\* it is no self-forward (forwardFromId present, 0 included, and equal to
\* fromId): the comparison returns NotImplemented exactly for the others.
C2_ComparableIffThreeConditions ==
    /\ res_ab # "none"
          => ((res_ab # "NotImplemented") <=> SpecComparable(a[1]))
    /\ res_ba # "none"
          => ((res_ba # "NotImplemented") <=> SpecComparable(b[1]))

\* C3: constructing a message whose mediaIds is absent (its channelId being
\* well-formed) does not raise, and its fingerprint is computed with an empty
\* media component.
C3_AbsentMediaConstructs ==
    \A s \in {a, b} :
        (s # <<>> /\ s[1].media_ids = None /\ IsIntLiteral(chat_id_text(s[1])))
            => /\ s[1].raised = "none"
               /\ s[1].fingerprint =
                    Some(gen_fingerprint([s[1] EXCEPT !.media_ids = Some(<<>>)]))

\* C4: a message supplied without a channelId (its mediaIds being a list) is
\* constructed without error, and comparing it yields the incomparable outcome.
C4_NoChannelIdIsIncomparable ==
    /\ \A s \in {a, b} :
          (s # <<>> /\ s[1].channel_id = None /\ s[1].media_ids # None)
              => s[1].raised = "none"
    /\ (res_ab # "none" /\ a[1].channel_id = None) => res_ab = "NotImplemented"
    /\ (res_ba # "none" /\ b[1].channel_id = None) => res_ba = "NotImplemented"

\* C5: two comparable messages with equal fingerprints match, whatever the
\* later rules (same message, same origin, text ratio, media overlap) say.
C5_SameFingerprintMatches ==
    /\ (ComparedAB /\ a[1].fingerprint = b[1].fingerprint) => res_ab = "True"
    /\ (ComparedBA /\ a[1].fingerprint = b[1].fingerprint) => res_ba = "True"

\* C5 witness: equal fingerprints matched although no later rule of the code
\* would match the pair.
C5_Witness ==
    /\ ComparedAB
    /\ a[1].fingerprint = b[1].fingerprint
    /\ res_ab = "True"
    /\ ~same_message(a[1], b[1])
    /\ ~same_forwarded(a[1], b[1])
    /\ ~matched_by_text(a[1], b[1])
    /\ ~matched_by_text_with_media(a[1], b[1])
    /\ ~matched_by_media(a[1], b[1])

\* C6: on comparable operands whose text ratio is the same in both
\* directions, a.__eq__(b) and b.__eq__(a) give the same outcome.
C6_Symmetric ==
    ( /\ ComparedAB
      /\ ComparedBA
      /\ same_text_ratio(a[1], b[1]) = same_text_ratio(b[1], a[1]) )
        => res_ab = res_ba

\* The inputs the fingerprint may depend on.
FingerprintInputs(m) ==
    <<m.from_channel_id, m.from_message_id, effective_text(m), Val(m.media_ids)>>

\* C7: two constructed messages that agree on (fromChannelId, fromMessageId,
\* effective text, mediaIds in order) have equal fingerprints, whatever their
\* fromId, channelId, messageId and forwardFromId.
C7_FingerprintIndependence ==
    (Built(a) /\ Built(b) /\ FingerprintInputs(a[1]) = FingerprintInputs(b[1]))
        => a[1].fingerprint = b[1].fingerprint

\* C7 witness: two built messages that differ in fromId, channelId, messageId
\* and forwardFromId and carry the same fingerprint.
C7_Witness ==
    /\ Built(a) /\ Built(b)
    /\ FingerprintInputs(a[1]) = FingerprintInputs(b[1])
    /\ a[1].from_id # b[1].from_id
    /\ a[1].channel_id # b[1].channel_id
    /\ a[1].message_id # b[1].message_id
    /\ a[1].forward_from_id # b[1].forward_from_id
    /\ a[1].fingerprint = b[1].fingerprint

\* C8: with rules 1-3 silent, a carrying significant text and no media, the
\* outcome is match exactly when the text ratio is strictly above the limit,
\* 0.66 when a has fromChannelId and fromMessageId present and 0.75 otherwise.
C8_TextThreshold ==
    ( /\ ComparedAB
      /\ ~Rule1(a[1], b[1]) /\ ~Rule2(a[1], b[1]) /\ ~Rule3(a[1], b[1])
      /\ a[1].significant_text
      /\ ~TruthySeq(a[1].media_ids) )
        => res_ab = (IF RatioGt(same_text_ratio(a[1], b[1]), SpecTextLimit(a[1]))
                     THEN "True" ELSE "False")

\* C9: with a's media non-empty and rules 1-5 silent, the outcome is match
\* exactly when the overlap of the two media sets, divided by the size of the
\* larger set, is at least 0.66.
C9_MediaOverlap ==
    ( /\ ComparedAB
      /\ TruthySeq(a[1].media_ids)
      /\ ~Rule1(a[1], b[1]) /\ ~Rule2(a[1], b[1]) /\ ~Rule3(a[1], b[1])
      /\ ~Rule4(a[1], b[1]) /\ ~Rule5(a[1], b[1]) )
        => res_ab = (IF RatioGe(SetOverlapRatio(a[1], b[1]), 66)
                     THEN "True" ELSE "False")

\* C10: for comparable operands the outcome is match exactly when one of the
\* six rules holds, and no-match when none does.
C10_CascadeComplete ==
    ComparedAB
        => res_ab = (IF \/ Rule1(a[1], b[1]) \/ Rule2(a[1], b[1])
                        \/ Rule3(a[1], b[1]) \/ Rule4(a[1], b[1])
                        \/ Rule5(a[1], b[1]) \/ Rule6(a[1], b[1])
                     THEN "True" ELSE "False")

=============================================================================
